---- MODULE Spec2Model ----
(***************************************************************************)
(* gpg-keytag: the token-tree codec of src/keyfile.rs (deserialize,        *)
(* serialize and the nom parsers behind them) and the comment field        *)
(* accessor and mutator of src/main.rs, as a state machine over the tree   *)
(* and the byte buffer a caller holds.                                     *)
(*                                                                         *)
(* Bytes are the integers 0..255.  A byte string (&[u8], Vec<u8>, and the  *)
(* UTF-8 bytes of a &str or String) is a sequence of bytes.                *)
(***************************************************************************)
EXTENDS Integers, Sequences, FiniteSets, TLC

VARIABLES
    op,       \* the operation that ran last
    tt,       \* the TokenTree the caller holds (NoTree: none)
    orig,     \* the tree the caller started with, before any upsert
    prev,     \* the tree as it was before the last upsert_comment
    value,    \* the comment given to the last upsert_comment / main
    buffer,   \* the bytes at hand: fuzz data, a Vec written to, the keyfile
    input,    \* the bytes the last deserialize was given
    sink,     \* the capacity of the sink the last serialize wrote to
    wres,     \* io::Result of the last serialize
    result,   \* anyhow::Result<TokenTree> of the last deserialize
    comment,  \* Option<String> of the last get_comment
    stdout,   \* what the last run of main printed
    exit      \* how the last process or fuzz run ended

vars == <<op, tt, orig, prev, value, buffer, input, sink, wres, result, comment, stdout, exit>>

----------------------------------------------------------------------------
(* Bytes of the format and of the program's literals.                      *)

LPAREN == 40
RPAREN == 41
COLON == 58
ASCII_ZERO == 48
ASCII_NINE == 57

\* b"comment"
GPG_COMMENT_FIELD == <<99, 111, 109, 109, 101, 110, 116>>

\* "(none)" followed by println!'s line break
NONE_LINE == <<40, 110, 111, 110, 101, 41, 10>>

\* U+FFFD REPLACEMENT CHARACTER in UTF-8
REPLACEMENT == <<239, 191, 189>>

\* usize::MAX = 18446744073709551615 on a 64-bit target, as decimal digits
USIZE_MAX_DIGITS == <<1, 8, 4, 4, 6, 7, 4, 4, 0, 7, 3, 7, 0, 9, 5, 5, 1, 6, 1, 5>>

----------------------------------------------------------------------------
(* enum TokenTree { Node(Vec<TokenTree>), Leaf(&[u8]) }                    *)

Leaf(bytes) == [tag |-> "Leaf", bytes |-> bytes, children |-> <<>>]

Node(children) == [tag |-> "Node", bytes |-> <<>>, children |-> children]

\* no tree held (a variable not yet bound, an Err or a None)
NoTree == [tag |-> "None", bytes |-> <<>>, children |-> <<>>]

----------------------------------------------------------------------------
(* Bounds of the model.                                                    *)

\* longest arbitrary byte string handed to deserialize
MaxLen == 4

\* most children of a top-level node
MaxChildren == 2

\* deepest chain of nested nodes
MaxDepth == 3

\* largest capacity of a bounded sink
MaxRoom == 3

\* sizes at or above SizeCap are kept as SizeCap: a size is only ever
\* compared with the length of a slice, and no slice is that long
SizeCap == 1000000000

----------------------------------------------------------------------------
(* Integer <-> decimal conversions.                                        *)

RECURSIVE to_string_no_zero(_)
\* variant of to_string: the digit loop runs while n > 0, so 0 has no digit
to_string_no_zero(n) ==
    IF n = 0 THEN <<>>
    ELSE to_string_no_zero(n \div 10) \o <<ASCII_ZERO + (n % 10)>>

RECURSIVE to_string(_)
\* usize::to_string: decimal, no sign, no leading zeros, "0" for zero
to_string(n) ==
    IF n < 10 THEN <<ASCII_ZERO + n>>
    ELSE to_string(n \div 10) \o <<ASCII_ZERO + (n % 10)>>

is_digit(b) == b >= ASCII_ZERO /\ b <= ASCII_NINE

DigitVal(b) == b - ASCII_ZERO

RECURSIVE StripZeros(_)
StripZeros(ds) ==
    IF ds # <<>> /\ Head(ds) = 0 THEN StripZeros(Tail(ds)) ELSE ds

RECURSIVE DigitsGreater(_, _)
\* ds > es for two digit strings of the same length
DigitsGreater(ds, es) ==
    IF ds = <<>> THEN FALSE
    ELSE IF Head(ds) # Head(es) THEN Head(ds) > Head(es)
    ELSE DigitsGreater(Tail(ds), Tail(es))

\* the number exceeds usize::MAX: checked_mul / checked_add fail in
\* usize::from_str and it returns Err(PosOverflow)
Overflows(run) ==
    LET ds == StripZeros([i \in 1..Len(run) |-> DigitVal(run[i])])
    IN  \/ Len(ds) > Len(USIZE_MAX_DIGITS)
        \/ /\ Len(ds) = Len(USIZE_MAX_DIGITS)
           /\ DigitsGreater(ds, USIZE_MAX_DIGITS)

RECURSIVE Accumulate(_, _)
Accumulate(run, acc) ==
    IF run = <<>> THEN acc
    ELSE LET d == DigitVal(Head(run))
         IN  IF acc > (SizeCap - d) \div 10
             THEN SizeCap
             ELSE Accumulate(Tail(run), acc * 10 + d)

\* str::parse::<usize>() on a non-empty run of ASCII digits
parse_usize(run) ==
    IF Overflows(run) THEN [ok |-> FALSE, val |-> 0]
    ELSE [ok |-> TRUE, val |-> Accumulate(run, 0)]

----------------------------------------------------------------------------
(* The sink of serialize: any io::Write.  room is the number of bytes the  *)
(* sink still takes (NoLimit: a Vec<u8>, which never fails).               *)

NoLimit == -1

Sink(room) == [buf |-> <<>>, room |-> room, ok |-> TRUE]

\* Write::write_all followed by `?`: once a write has failed nothing more
\* is written; a failing write leaves the part that fitted
write_all(w, bytes) ==
    IF ~w.ok THEN w
    ELSE IF w.room = NoLimit
    THEN [w EXCEPT !.buf = w.buf \o bytes]
    ELSE IF Len(bytes) <= w.room
    THEN [w EXCEPT !.buf = w.buf \o bytes, !.room = w.room - Len(bytes)]
    ELSE [buf |-> w.buf \o SubSeq(bytes, 1, w.room), room |-> 0, ok |-> FALSE]

RECURSIVE serialize(_, _)
RECURSIVE serialize_children(_, _, _)
serialize_children(children, i, w) ==
    IF i > Len(children) \/ ~w.ok THEN w
    ELSE serialize_children(children, i + 1, serialize(children[i], w))

\* variant of serialize: the closing parenthesis of a node is not written
serialize_unclosed(tree, writer) ==
    IF tree.tag = "Leaf"
    THEN write_all(write_all(write_all(writer,
                to_string(Len(tree.bytes))), <<COLON>>), tree.bytes)
    ELSE serialize_children(tree.children, 1, write_all(writer, <<LPAREN>>))

serialize(tree, writer) ==
    IF tree.tag = "Leaf"
    THEN write_all(write_all(write_all(writer,
                to_string(Len(tree.bytes))), <<COLON>>), tree.bytes)
    ELSE write_all(serialize_children(tree.children, 1,
                write_all(writer, <<LPAREN>>)), <<RPAREN>>)

----------------------------------------------------------------------------
(* The nom parsers.  An IResult is Ok((rest, out)) or Err(Error); a panic  *)
(* unwinds through every caller.                                           *)

POk(rest, out) == [kind |-> "Ok", rest |-> rest, out |-> out]

PError == [kind |-> "Error", rest |-> <<>>, out |-> NoTree]

PPanic == [kind |-> "Panic", rest |-> <<>>, out |-> NoTree]

RECURSIVE DigitRunLen(_, _)
\* the number of leading bytes of s, from position i on, that are digits
DigitRunLen(s, i) ==
    IF i <= Len(s) /\ is_digit(s[i]) THEN 1 + DigitRunLen(s, i + 1) ELSE 0

DropFirst(s, n) == SubSeq(s, n + 1, Len(s))

\* variant of ptoken: take(size) wants more than size bytes to remain
ptoken_exclusive(inp) ==
    LET n == DigitRunLen(inp, 1)
        size == parse_usize(SubSeq(inp, 1, n))
        afterDigits == DropFirst(inp, n)
        afterColon == DropFirst(afterDigits, 1)
    IN  IF n = 0 THEN PError
        ELSE IF ~size.ok THEN PPanic
        ELSE IF afterDigits = <<>> \/ Head(afterDigits) # COLON
        THEN PError
        ELSE IF Len(afterColon) <= size.val THEN PError
        ELSE [kind |-> "Ok",
              rest |-> DropFirst(afterColon, size.val),
              out |-> SubSeq(afterColon, 1, size.val)]

ptoken(inp) ==
    LET n == DigitRunLen(inp, 1)
        size == parse_usize(SubSeq(inp, 1, n))
        afterDigits == DropFirst(inp, n)
        afterColon == DropFirst(afterDigits, 1)
    IN  IF n = 0 THEN PError                              \* take_while1
        ELSE IF ~size.ok THEN PPanic                      \* .parse().unwrap()
        ELSE IF afterDigits = <<>> \/ Head(afterDigits) # COLON
        THEN PError                                       \* tag(b":")
        ELSE IF Len(afterColon) < size.val THEN PError    \* take(size)
        ELSE [kind |-> "Ok",
              rest |-> DropFirst(afterColon, size.val),
              out |-> SubSeq(afterColon, 1, size.val)]

pleaf(inp) ==
    LET r == ptoken(inp)
    IN  IF r.kind = "Ok" THEN POk(r.rest, Leaf(r.out))
        ELSE IF r.kind = "Panic" THEN PPanic
        ELSE PError

RECURSIVE ptree(_)
RECURSIVE iterator_collect(_, _)
\* iterator(input, ptree).collect() then it.finish(): children are taken
\* until ptree returns Err(Error), which ends the iteration without failing
iterator_collect(inp, acc) ==
    LET r == ptree(inp)
    IN  IF r.kind = "Ok" THEN iterator_collect(r.rest, Append(acc, r.out))
        ELSE IF r.kind = "Panic" THEN [kind |-> "Panic", rest |-> <<>>, out |-> <<>>]
        ELSE [kind |-> "Ok", rest |-> inp, out |-> acc]

pnode(inp) ==
    IF inp = <<>> \/ Head(inp) # LPAREN THEN PError       \* tag(b"(")
    ELSE LET it == iterator_collect(Tail(inp), <<>>)
         IN  IF it.kind = "Panic" THEN PPanic
             ELSE IF it.rest = <<>> \/ Head(it.rest) # RPAREN
             THEN PError                                  \* tag(b")")
             ELSE POk(Tail(it.rest), Node(it.out))

\* alt((pnode, pleaf)): pleaf is tried when pnode returns Err(Error)
ptree(inp) ==
    LET r == pnode(inp)
    IN  IF r.kind = "Error" THEN pleaf(inp) ELSE r

DOk(tree) == [kind |-> "Ok", tree |-> tree]

DErr == [kind |-> "Err", tree |-> NoTree]

DPanic == [kind |-> "Panic", tree |-> NoTree]

DNone == [kind |-> "None", tree |-> NoTree]

\* variant of deserialize: input left over after the tree is an error
deserialize_all_consuming(inp) ==
    LET r == ptree(inp)
    IN  IF r.kind = "Ok" THEN (IF r.rest = <<>> THEN DOk(r.out) ELSE DErr)
        ELSE IF r.kind = "Error" THEN DErr
        ELSE DPanic

deserialize(inp) ==
    LET r == ptree(inp)
    IN  IF r.kind = "Ok" THEN DOk(r.out)
        ELSE IF r.kind = "Error" THEN DErr
        ELSE DPanic

----------------------------------------------------------------------------
(* String::from_utf8_lossy(bs).to_string(), as the UTF-8 bytes of the      *)
(* String: well-formed sequences are kept, every maximal ill-formed part   *)
(* becomes U+FFFD.                                                         *)

Between(b, lo, hi) == b >= lo /\ b <= hi

\* the range the second byte of a sequence led by b must lie in
SecondLo(b) == IF b = 224 THEN 160 ELSE IF b = 240 THEN 144 ELSE 128

SecondHi(b) == IF b = 237 THEN 159 ELSE IF b = 244 THEN 143 ELSE 191

Utf8Width(b) ==
    IF b < 128 THEN 1
    ELSE IF Between(b, 194, 223) THEN 2
    ELSE IF Between(b, 224, 239) THEN 3
    ELSE IF Between(b, 240, 244) THEN 4
    ELSE 0

Continues(s, i) == i <= Len(s) /\ Between(s[i], 128, 191)

\* the chunk that starts at s[i]: whether it is well formed, and its length
Utf8Chunk(s, i) ==
    LET b == s[i]
        w == Utf8Width(b)
    IN  IF w = 1 THEN [valid |-> TRUE, len |-> 1]
        ELSE IF w = 0 THEN [valid |-> FALSE, len |-> 1]
        ELSE IF ~(i + 1 <= Len(s) /\ Between(s[i + 1], SecondLo(b), SecondHi(b)))
        THEN [valid |-> FALSE, len |-> 1]
        ELSE IF w = 2 THEN [valid |-> TRUE, len |-> 2]
        ELSE IF ~Continues(s, i + 2) THEN [valid |-> FALSE, len |-> 2]
        ELSE IF w = 3 THEN [valid |-> TRUE, len |-> 3]
        ELSE IF ~Continues(s, i + 3) THEN [valid |-> FALSE, len |-> 3]
        ELSE [valid |-> TRUE, len |-> 4]

RECURSIVE LossyFrom(_, _)
LossyFrom(s, i) ==
    IF i > Len(s) THEN <<>>
    ELSE LET c == Utf8Chunk(s, i)
         IN  (IF c.valid THEN SubSeq(s, i, i + c.len - 1) ELSE REPLACEMENT)
                 \o LossyFrom(s, i + c.len)

from_utf8_lossy(bs) == LossyFrom(bs, 1)

----------------------------------------------------------------------------
(* main.rs: the comment field.                                             *)

\* Option<String>
Some(str) == [some |-> TRUE, str |-> str]

None == [some |-> FALSE, str |-> <<>>]

\* Node(xs) if xs.get(0) == Some(&Leaf(GPG_COMMENT_FIELD))
is_comment_node(x) ==
    /\ x.tag = "Node"
    /\ Len(x.children) >= 1
    /\ x.children[1] = Leaf(GPG_COMMENT_FIELD)

\* values.iter().skip(1)
FirstScanned == 2

RECURSIVE get_comment_from(_, _)
get_comment_from(values, i) ==
    IF i > Len(values) THEN None
    ELSE IF is_comment_node(values[i])
    THEN LET xs == values[i].children
         IN  IF Len(xs) >= 2 /\ xs[2].tag = "Leaf"
             THEN Some(from_utf8_lossy(xs[2].bytes))
             ELSE None
    ELSE get_comment_from(values, i + 1)

\* variant of get_comment: without skip(1)
get_comment_unskipped(tree) ==
    IF tree.tag # "Node" THEN None
    ELSE get_comment_from(tree.children, 1)

get_comment(tree) ==
    IF tree.tag # "Node" THEN None
    ELSE get_comment_from(tree.children, FirstScanned)

\* vec![Leaf(GPG_COMMENT_FIELD), Leaf(value.as_bytes())]
comment_field(val) == Node(<<Leaf(GPG_COMMENT_FIELD), Leaf(val)>>)

RECURSIVE upsert_from_no_return(_, _, _)
\* variant of upsert_from: no return after the replacement, so the field
\* is pushed as well
upsert_from_no_return(children, i, val) ==
    IF i > Len(children) THEN Append(children, comment_field(val))
    ELSE IF is_comment_node(children[i])
    THEN Append([children EXCEPT ![i] = comment_field(val)], comment_field(val))
    ELSE upsert_from_no_return(children, i + 1, val)

RECURSIVE upsert_from(_, _, _)
upsert_from(children, i, val) ==
    IF i > Len(children) THEN Append(children, comment_field(val))
    ELSE IF is_comment_node(children[i])
    THEN [children EXCEPT ![i] = comment_field(val)]
    ELSE upsert_from(children, i + 1, val)

\* variant of upsert_comment: the first child is skipped, as get_comment does
upsert_comment_skip_first(tree, val) ==
    IF tree.tag # "Node" THEN tree
    ELSE IF tree.children = <<>> THEN Node(<<comment_field(val)>>)
    ELSE Node(<<Head(tree.children)>> \o upsert_from(Tail(tree.children), 1, val))

upsert_comment(tree, val) ==
    IF tree.tag # "Node" THEN tree
    ELSE Node(upsert_from(tree.children, 1, val))

----------------------------------------------------------------------------
(* The inputs the operations are applied to.                               *)

SeqsUpTo(S, n) == UNION {[1..k -> S] : k \in 0..n}

\* "notcomment", the other field of the tests
NOTCOMMENT == <<110, 111, 116>> \o GPG_COMMENT_FIELD

\* "(1:)": a token made of the format's own delimiters
DELIMS == <<LPAREN, ASCII_ZERO + 1, COLON, RPAREN>>

\* the bytes arbitrary inputs are made of: ( ) : 0 1 2 a
Alphabet == {LPAREN, RPAREN, COLON, ASCII_ZERO, ASCII_ZERO + 1, ASCII_ZERO + 2, 97}

\* the children a top-level node is built from
ChildPool ==
    { Leaf(GPG_COMMENT_FIELD),
      Node(<<>>),
      Node(<<Leaf(GPG_COMMENT_FIELD)>>),
      Node(<<Leaf(GPG_COMMENT_FIELD), Leaf(DELIMS)>>),
      Node(<<Leaf(GPG_COMMENT_FIELD), Leaf(<<195, 169, 255>>), Leaf(<<>>)>>),
      Node(<<Leaf(GPG_COMMENT_FIELD), Node(<<>>)>>),
      Node(<<Leaf(NOTCOMMENT), Leaf(<<97>>)>>) }

RECURSIVE Nested(_)
\* a chain of n nodes around an empty leaf
Nested(n) == IF n = 0 THEN Leaf(<<>>) ELSE Node(<<Nested(n - 1), Leaf(<<97>>)>>)

\* "private-key", the record kind that opens a keyfile
PRIVATE_KEY == <<112, 114, 105, 118, 97, 116, 101, 45, 107, 101, 121>>

\* keyfile-shaped trees: the record kind, then fields, as in the unit tests
KeyTrees ==
    { Node(<<Leaf(PRIVATE_KEY), f, g>>) :
        f \in {Node(<<Leaf(NOTCOMMENT), Leaf(<<97>>)>>),
               Node(<<Leaf(GPG_COMMENT_FIELD)>>),
               Node(<<Leaf(GPG_COMMENT_FIELD), Leaf(<<98>>)>>)},
        g \in {Leaf(<<97>>),
               Node(<<Leaf(GPG_COMMENT_FIELD), Leaf(DELIMS)>>)} }

Trees ==
    {Leaf(<<>>), Leaf(DELIMS), Leaf(NOTCOMMENT), Leaf(<<195, 169, 255>>)}
        \cup {Node(cs) : cs \in SeqsUpTo(ChildPool, MaxChildren)}
        \cup {Nested(n) : n \in 1..MaxDepth}
        \cup KeyTrees

\* the comments given on the command line: "", "a", "e-acute" (valid UTF-8)
Comments == {<<>>, <<97>>, <<195, 169>>}

\* bytes that follow an encoding: "", ")", "(", "0", ":", "1:a"
Trails == {<<>>, <<RPAREN>>, <<LPAREN>>, <<ASCII_ZERO>>, <<COLON>>,
           <<ASCII_ZERO + 1, COLON, 97>>}

Rooms == {NoLimit} \cup 0..MaxRoom

\* usize::MAX and usize::MAX + 1 in decimal
MaxRun == [i \in 1..Len(USIZE_MAX_DIGITS) |-> ASCII_ZERO + USIZE_MAX_DIGITS[i]]

OverRun == [MaxRun EXCEPT ![Len(MaxRun)] = MaxRun[Len(MaxRun)] + 1]

\* inputs longer than MaxLen: digit runs around usize::MAX, and the inputs
\* of the unit tests parse_leaf and parse_complex_node
LongInputs ==
    { MaxRun \o <<COLON>>,
      OverRun \o <<COLON>>,
      OverRun,
      <<ASCII_ZERO>> \o MaxRun \o <<COLON, 97>>,
      <<ASCII_ZERO>> \o OverRun \o <<COLON>>,
      <<LPAREN>> \o OverRun \o <<COLON, RPAREN>>,
      <<LPAREN, ASCII_ZERO + 1, COLON, 97>> \o OverRun,
      <<49, 50, 58, 102, 111, 111, 98, 97, 114, 98, 97, 122, 98, 105, 122,
        113, 117, 120>>,
      <<40, 54, 58, 102, 111, 111, 98, 97, 114, 40, 51, 58, 113, 117, 120,
        52, 58, 113, 117, 117, 120, 41, 40, 50, 58, 120, 121, 41, 41>> }

RawInputs == SeqsUpTo(Alphabet, MaxLen) \cup LongInputs

----------------------------------------------------------------------------
(* The state machine.                                                      *)

Init ==
    /\ op = "init"
    /\ \/ tt \in Trees /\ buffer = <<>>
       \/ tt = NoTree /\ buffer \in RawInputs
    /\ orig = tt
    /\ prev = NoTree
    /\ value = <<>>
    /\ input = <<>>
    /\ sink = NoLimit
    /\ wres = "None"
    /\ result = DNone
    /\ comment = None
    /\ stdout = <<>>
    /\ exit = "None"

\* fuzz target deserialization: deserialize(data) on arbitrary bytes
fuzz_deserialization ==
    /\ op = "init"
    /\ tt = NoTree
    /\ op' = "fuzz_deserialization"
    /\ input' = buffer
    /\ result' = deserialize(buffer)
    /\ exit' = IF result'.kind = "Panic" THEN "Panic" ELSE "Ok"
    /\ UNCHANGED <<tt, orig, prev, value, buffer, sink, wres, comment, stdout>>

\* fuzz target serialization_round_trip
fuzz_serialization_round_trip ==
    /\ tt # NoTree
    /\ op' = "fuzz_serialization_round_trip"
    /\ sink' = NoLimit
    /\ LET w == serialize(tt, Sink(NoLimit))
       IN  /\ buffer' = w.buf
           /\ wres' = IF w.ok THEN "Ok" ELSE "Err"
    /\ input' = buffer'
    /\ result' = deserialize(buffer')
    \* serialize(..).unwrap(); assert_eq!(deserialize(&buffer).unwrap(), tree)
    /\ exit' = IF wres' = "Ok" /\ result' = DOk(tt) THEN "Ok" ELSE "Panic"
    /\ prev' = NoTree
    /\ value' = <<>>
    /\ comment' = None
    /\ stdout' = <<>>
    /\ UNCHANGED <<tt, orig>>

\* serialize(&tree, &mut writer) into a fresh sink taking `room` bytes
Serialize(room) ==
    /\ tt # NoTree
    /\ op' = "serialize"
    /\ sink' = room
    /\ LET w == serialize(tt, Sink(room))
       IN  /\ buffer' = w.buf
           /\ wres' = IF w.ok THEN "Ok" ELSE "Err"
    /\ prev' = NoTree
    /\ value' = <<>>
    /\ input' = <<>>
    /\ result' = DNone
    /\ comment' = None
    /\ stdout' = <<>>
    /\ exit' = "None"
    /\ UNCHANGED <<tt, orig>>

\* deserialize on what serialize wrote, followed by the bytes `trail`
\* (as the test parse_leaf does)
DeserializeEncoded(trail) ==
    /\ op = "serialize"
    /\ wres = "Ok"
    /\ op' = "deserialize_encoded"
    /\ input' = buffer \o trail
    /\ result' = deserialize(input')
    /\ exit' = IF result'.kind = "Panic" THEN "Panic" ELSE "None"
    /\ UNCHANGED <<tt, orig, prev, value, buffer, sink, wres, comment, stdout>>

GetComment ==
    /\ tt # NoTree
    /\ op' = "get_comment"
    /\ comment' = get_comment(tt)
    /\ prev' = NoTree
    /\ value' = <<>>
    /\ buffer' = <<>>
    /\ input' = <<>>
    /\ sink' = NoLimit
    /\ wres' = "None"
    /\ result' = DNone
    /\ stdout' = <<>>
    /\ exit' = "None"
    /\ UNCHANGED <<tt, orig>>

UpsertComment(val) ==
    /\ tt # NoTree
    /\ op' = "upsert_comment"
    /\ prev' = tt
    /\ value' = val
    /\ tt' = upsert_comment(tt, val)
    /\ buffer' = <<>>
    /\ input' = <<>>
    /\ sink' = NoLimit
    /\ wres' = "None"
    /\ result' = DNone
    /\ comment' = None
    /\ stdout' = <<>>
    /\ exit' = "None"
    /\ UNCHANGED orig

\* a keyfile is on disk: arbitrary bytes, a tree written out in full, or
\* what an earlier run of main left
HasKeyfile ==
    \/ op = "init" /\ tt = NoTree
    \/ op = "serialize" /\ wres = "Ok"
    \/ op \in {"main_print", "main_set", "main_usage"}

\* what main leaves behind besides the keyfile, stdout and the exit status
MainEnds(name) ==
    /\ op' = name
    /\ tt' = NoTree
    /\ orig' = NoTree
    /\ prev' = NoTree
    /\ sink' = NoLimit
    /\ wres' = "None"
    /\ comment' = None

\* how the file system answers a run of main: every call succeeds, or
\* the read of the keyfile fails, or its creation for writing does
IoOutcomes == {"ok", "read_fails", "create_fails"}

\* gpg-keytag <keyfile>
main_print(io) ==
    /\ HasKeyfile
    /\ io \in {"ok", "read_fails"}
    /\ MainEnds("main_print")
    /\ value' = <<>>
    /\ input' = buffer
    /\ UNCHANGED buffer
    /\ IF io = "read_fails"
       THEN /\ result' = DNone                 \* std::fs::read(keyfile)?
            /\ stdout' = <<>>
            /\ exit' = "Err"
       ELSE /\ result' = deserialize(buffer)
            /\ IF result'.kind = "Ok"
               THEN LET c == get_comment(result'.tree)
                    IN  /\ stdout' = IF c.some THEN c.str \o <<10>> ELSE NONE_LINE
                        /\ exit' = "Ok"
               ELSE /\ stdout' = <<>>
                    /\ exit' = result'.kind

\* gpg-keytag <keyfile> <comment>; the file created takes `room` bytes
main_set(val, io, room) ==
    /\ HasKeyfile
    /\ io = "ok" \/ room = NoLimit
    /\ MainEnds("main_set")
    /\ value' = val
    /\ input' = buffer
    /\ stdout' = <<>>
    /\ IF io = "read_fails"
       THEN /\ result' = DNone                 \* std::fs::read(keyfile)?
            /\ exit' = "Err"
            /\ UNCHANGED buffer
       ELSE /\ result' = deserialize(buffer)
            /\ IF result'.kind # "Ok"
               THEN /\ exit' = result'.kind
                    /\ UNCHANGED buffer
               ELSE IF io = "create_fails"
               THEN /\ exit' = "Err"           \* std::fs::File::create(keyfile)?
                    /\ UNCHANGED buffer
               ELSE LET w == serialize(upsert_comment(result'.tree, val), Sink(room))
                    IN  /\ buffer' = w.buf
                        /\ exit' = IF w.ok THEN "Ok" ELSE "Err"

\* any other number of arguments: eprintln!(USAGE)
main_usage ==
    /\ HasKeyfile
    /\ MainEnds("main_usage")
    /\ value' = <<>>
    /\ input' = <<>>
    /\ result' = DNone
    /\ stdout' = <<>>
    /\ exit' = "Ok"
    /\ UNCHANGED buffer

Next ==
    \/ fuzz_deserialization
    \/ fuzz_serialization_round_trip
    \/ \E room \in Rooms : Serialize(room)
    \/ \E trail \in Trails : DeserializeEncoded(trail)
    \/ GetComment
    \/ \E val \in Comments : UpsertComment(val)
    \/ \E io \in IoOutcomes : main_print(io)
    \/ \E val \in Comments, io \in IoOutcomes, room \in Rooms : main_set(val, io, room)
    \/ main_usage

Spec == Init /\ [][Next]_vars

----------------------------------------------------------------------------
(* Properties.                                                             *)

Vec == Sink(NoLimit)

\* the bytes serialize writes into a Vec<u8>
Written(tree) == serialize(tree, Vec).buf

IsPrefix(s, t) == Len(s) <= Len(t) /\ SubSeq(t, 1, Len(s)) = s

\* C1: deserialize applied to the bytes serialize wrote for a tree T
\* succeeds and returns a tree equal to T, whatever bytes T's leaves hold
\* and however its nodes nest (the fuzz target's assertion never fails).
RoundTripFromTree ==
    op = "fuzz_serialization_round_trip" =>
        /\ wres = "Ok"
        /\ result = DOk(tt)
        /\ exit = "Ok"

\* a round trip of a node that holds a leaf made of ( 1 : ) and an empty leaf
RoundTripFromTreeWitness ==
    /\ op = "fuzz_serialization_round_trip"
    /\ tt.tag = "Node"
    /\ \E i \in 1..Len(tt.children) :
          /\ tt.children[i].tag = "Node"
          /\ \E j \in 1..Len(tt.children[i].children) :
                tt.children[i].children[j] = Leaf(DELIMS)
    /\ \E i \in 1..Len(tt.children) :
          /\ tt.children[i].tag = "Node"
          /\ \E j \in 1..Len(tt.children[i].children) :
                tt.children[i].children[j] = Leaf(<<>>)
    /\ result.kind = "Ok"

RECURSIVE CanonicalTree(_)
RECURSIVE CanonicalForest(_)
\* for an input that parses: whether every length prefix of the forest at
\* the head of inp (up to its closing parenthesis) is "0" or starts with a
\* digit other than 0, and what follows that forest
CanonicalForest(inp) ==
    IF inp = <<>> THEN [canon |-> FALSE, rest |-> <<>>]
    ELSE IF Head(inp) = RPAREN THEN [canon |-> TRUE, rest |-> Tail(inp)]
    ELSE LET c == CanonicalTree(inp)
             f == CanonicalForest(c.rest)
         IN  [canon |-> c.canon /\ f.canon, rest |-> f.rest]

CanonicalTree(inp) ==
    IF inp = <<>> THEN [canon |-> FALSE, rest |-> <<>>]
    ELSE IF Head(inp) = LPAREN THEN CanonicalForest(Tail(inp))
    ELSE LET n == DigitRunLen(inp, 1)
         IN  [canon |-> n = 1 \/ (n > 1 /\ Head(inp) # ASCII_ZERO),
              rest |-> IF n = 0 THEN <<>> ELSE ptoken(inp).rest]

CanonicalLengths(inp) == CanonicalTree(inp).canon

ConsumedFully(inp) == ptree(inp).kind = "Ok" /\ ptree(inp).rest = <<>>

\* C2 as stated: for every input that deserialize consumes fully, leading
\* zeros in length prefixes allowed, serialize of the tree writes exactly
\* the input.
ReserializeAnyInput ==
    (op = "fuzz_deserialization" /\ result.kind = "Ok" /\ ConsumedFully(input))
        => Written(result.tree) = input

\* C2 amended: for every input that deserialize consumes fully and whose
\* length prefixes have no leading zeros ("0" or a first digit other than
\* 0), serialize of the tree writes exactly the input; with a leading zero
\* somewhere, it writes a shorter encoding that parses to the same tree.
ReserializeCanonicalInput ==
    (op = "fuzz_deserialization" /\ result.kind = "Ok" /\ ConsumedFully(input))
        => /\ CanonicalLengths(input) => Written(result.tree) = input
           /\ ~CanonicalLengths(input) =>
                 /\ Len(Written(result.tree)) < Len(input)
                 /\ deserialize(Written(result.tree)) = result

\* a fully consumed input without leading zeros that holds a node with a
\* child
ReserializeCanonicalInputWitness ==
    /\ op = "fuzz_deserialization"
    /\ result.kind = "Ok"
    /\ ConsumedFully(input)
    /\ CanonicalLengths(input)
    /\ result.tree.tag = "Node"
    /\ Len(result.tree.children) >= 1

\* C3: deserialize returns a tree or an error for every input and never
\* panics, a digit run beyond usize::MAX included.
DeserializeNeverPanics ==
    op = "fuzz_deserialization" => result.kind \in {"Ok", "Err"}

RECURSIVE IsTreeEncoding(_)
RECURSIVE IsForestEncoding(_)
\* the grammar: s is the concatenation of zero or more tree encodings
IsForestEncoding(s) ==
    \/ s = <<>>
    \/ \E k \in 1..Len(s) :
          /\ IsTreeEncoding(SubSeq(s, 1, k))
          /\ IsForestEncoding(SubSeq(s, k + 1, Len(s)))

\* the grammar: s is digits ":" bytes with as many bytes as the digits
\* say, or "(" forest ")"
IsTreeEncoding(s) ==
    \/ \E k \in 1..(Len(s) - 1) :
          /\ \A i \in 1..k : is_digit(s[i])
          /\ s[k + 1] = COLON
          /\ ~Overflows(SubSeq(s, 1, k))
          /\ Accumulate(SubSeq(s, 1, k), 0) = Len(s) - k - 1
    \/ /\ Len(s) >= 2
       /\ s[1] = LPAREN
       /\ s[Len(s)] = RPAREN
       /\ IsForestEncoding(SubSeq(s, 2, Len(s) - 1))

BeginsWithTree(s) == \E k \in 1..Len(s) : IsTreeEncoding(SubSeq(s, 1, k))

\* C4: deserialize returns an error, and no tree, for every input that
\* does not begin with a complete tree encoding (empty input, a bad first
\* byte, a digit run without ':', a leaf cut short, a node left open, at
\* any depth).
MalformedInputIsError ==
    (op = "fuzz_deserialization" /\ ~BeginsWithTree(input))
        => result = DErr

\* C5: deserialize of a tree's encoding followed by any bytes succeeds and
\* returns that tree: the trailing bytes are ignored.
TrailingBytesIgnored ==
    op = "deserialize_encoded" => result = DOk(tt)

\* a node's encoding followed by bytes that would start another leaf
TrailingBytesIgnoredWitness ==
    /\ op = "deserialize_encoded"
    /\ tt.tag = "Node"
    /\ Len(tt.children) >= 2
    /\ Len(input) = Len(buffer) + 3
    /\ result.kind = "Ok"

Digits == ASCII_ZERO..ASCII_NINE

\* ds is the decimal numeral of n: digits only, no leading zero unless the
\* numeral is "0", and the value is n
IsDecimalOf(ds, n) ==
    /\ ds # <<>>
    /\ Len(ds) = 1 \/ ds[1] # ASCII_ZERO
    /\ Accumulate(ds, 0) = n

Decimal(n) == CHOOSE ds \in SeqsUpTo(Digits, 2) : IsDecimalOf(ds, n)

RECURSIVE ConcatAll(_)
ConcatAll(ss) == IF ss = <<>> THEN <<>> ELSE Head(ss) \o ConcatAll(Tail(ss))

RECURSIVE Encoding(_)
\* the format: length ":" bytes for a leaf, "(" children ")" for a node
Encoding(tree) ==
    IF tree.tag = "Leaf"
    THEN Decimal(Len(tree.bytes)) \o <<COLON>> \o tree.bytes
    ELSE <<LPAREN>>
            \o ConcatAll([i \in 1..Len(tree.children) |-> Encoding(tree.children[i])])
            \o <<RPAREN>>

\* C6: serialize writes a leaf as the decimal length of its bytes without
\* leading zeros ("0" when empty), ':' and the bytes, and a node as '('
\* then its children's serializations in order then ')'; into a sink that
\* never fails it succeeds on every tree.
SerializeFormat ==
    op \in {"serialize", "fuzz_serialization_round_trip"} =>
        /\ sink = NoLimit => wres = "Ok"
        /\ wres = "Ok" => buffer = Encoding(tt)

\* a serialized node that holds a leaf of ten bytes or more, an empty leaf
\* and an empty node
SerializeFormatWitness ==
    /\ op = "serialize"
    /\ sink = NoLimit
    /\ tt.tag = "Node"
    /\ Len(tt.children) >= 2
    /\ \E i \in 1..Len(tt.children) : tt.children[i] = Node(<<>>)
    /\ \E i \in 1..Len(tt.children) :
          /\ tt.children[i].tag = "Node"
          /\ \E j \in 1..Len(tt.children[i].children) :
                /\ tt.children[i].children[j].tag = "Leaf"
                /\ Len(tt.children[i].children[j].bytes) >= 10
    /\ \E i \in 1..Len(tt.children) :
          /\ tt.children[i].tag = "Node"
          /\ \E j \in 1..Len(tt.children[i].children) :
                tt.children[i].children[j] = Leaf(<<>>)

\* a Node whose first element is Leaf("comment")
IsCommentField(x) ==
    /\ x.tag = "Node"
    /\ x.children # <<>>
    /\ x.children[1].tag = "Leaf"
    /\ x.children[1].bytes = GPG_COMMENT_FIELD

\* the first child at position `from` or later that is a comment field
\* (0: there is none)
FirstField(children, from) ==
    LET M == {i \in from..Len(children) : IsCommentField(children[i])}
    IN  IF M = {} THEN 0 ELSE CHOOSE i \in M : \A k \in M : i <= k

\* what get_comment is to return: absent for a leaf; else the child that
\* decides is the first comment field from the second child on, and its
\* second element, if there is one and it is a leaf, gives the value
ExpectedComment(tree, decoded) ==
    IF tree.tag # "Node" THEN None
    ELSE LET d == FirstField(tree.children, 2)
         IN  IF d = 0 THEN None
             ELSE LET xs == tree.children[d].children
                  IN  IF Len(xs) >= 2 /\ xs[2].tag = "Leaf"
                      THEN Some(IF decoded THEN from_utf8_lossy(xs[2].bytes)
                                ELSE xs[2].bytes)
                      ELSE None

IsAscii(bs) == \A i \in 1..Len(bs) : bs[i] < 128

\* C7 as stated: get_comment returns absent for a leaf; else the first
\* comment field from the second child on decides, and get_comment returns
\* the bytes of its second element if that is a leaf, absent otherwise
\* (later children are not looked at); absent if no child matches.
GetCommentReturnsBytes ==
    op = "get_comment" => comment = ExpectedComment(tt, FALSE)

\* C7 amended: as stated, except that what is returned is the lossy UTF-8
\* decoding of the second element's bytes (ill-formed sequences become
\* U+FFFD); it is the bytes themselves when they are ASCII.
GetCommentReturnsDecoded ==
    op = "get_comment" =>
        /\ comment = ExpectedComment(tt, TRUE)
        /\ ExpectedComment(tt, FALSE).some /\ IsAscii(ExpectedComment(tt, FALSE).str)
              => comment = ExpectedComment(tt, FALSE)

\* the first child is a comment field and is passed over; the second one
\* decides, and its value is returned decoded
GetCommentReturnsDecodedWitness ==
    /\ op = "get_comment"
    /\ tt.tag = "Node"
    /\ Len(tt.children) >= 2
    /\ IsCommentField(tt.children[1])
    /\ FirstField(tt.children, 2) = 2
    /\ comment.some
    /\ comment # ExpectedComment(tt, FALSE)

\* C8: upsert_comment leaves a leaf unchanged; in a node it changes one
\* child position only: the first comment field (the first child counts)
\* becomes Node([Leaf("comment"), Leaf(value)]) and the number of children
\* stays, or, without any comment field, that node is appended; all other
\* children, later comment fields included, are kept in order.
UpsertFrame ==
    op = "upsert_comment" =>
        IF prev.tag # "Node" THEN tt = prev
        ELSE LET old == prev.children
                 new == tt.children
                 d == FirstField(old, 1)
                 field == Node(<<Leaf(GPG_COMMENT_FIELD), Leaf(value)>>)
             IN  /\ tt.tag = "Node"
                 /\ IF d # 0
                    THEN /\ Len(new) = Len(old)
                         /\ new[d] = field
                         /\ \A j \in 1..Len(old) : j # d => new[j] = old[j]
                    ELSE /\ Len(new) = Len(old) + 1
                         /\ new[Len(new)] = field
                         /\ \A j \in 1..Len(old) : new[j] = old[j]

\* the first child was a comment field with other content and was
\* replaced; a later comment field was kept
UpsertFrameWitness ==
    /\ op = "upsert_comment"
    /\ prev.tag = "Node"
    /\ Len(prev.children) >= 2
    /\ IsCommentField(prev.children[1])
    /\ Len(prev.children[1].children) = 3
    /\ IsCommentField(prev.children[2])
    /\ tt.children[1] # prev.children[1]
    /\ tt.children[2] = prev.children[2]

\* C9: after upsert_comment(tree, v) on any node, a node without children
\* and a node whose first child is a comment field included,
\* get_comment(tree) returns v.
ReadBackAfterUpsert ==
    (op = "upsert_comment" /\ prev.tag = "Node") => get_comment(tt) = Some(value)

\* C10: the last upsert wins: after any sequence of upserts that ends with
\* the comment v, the tree is what a single upsert of v makes of the tree
\* the sequence started from; so the sequence added at most one child, and
\* the same upsert once more changes nothing.
LastUpsertWins ==
    op = "upsert_comment" =>
        /\ tt = upsert_comment(orig, value)
        /\ orig.tag = "Node" => Len(tt.children) <= Len(orig.children) + 1
        /\ upsert_comment(tt, value) = tt

\* a second upsert, with another comment, of a node that had no comment
\* field at first
LastUpsertWinsWitness ==
    /\ op = "upsert_comment"
    /\ orig.tag = "Node"
    /\ FirstField(orig.children, 1) = 0
    /\ Len(orig.children) >= 1
    /\ prev # orig
    /\ tt # prev
    /\ Len(tt.children) = Len(orig.children) + 1

====
